---- MODULE Spec2Model ----
(***************************************************************************)
(* ForeignSyncControl.vue: the HK/US sync control.  The component holds    *)
(* two status refs and three in-progress refs; its handlers are async      *)
(* functions that run up to their await in one event-loop turn and resume  *)
(* in a later turn when the request settles.  One action per turn.         *)
(*                                                                         *)
(* The start-up script of the backend (docker check, compose, grace        *)
(* period, watchdog) is a second, independent state machine on its own     *)
(* variables (pc, ran, services, slept, exitcode) with its own             *)
(* specification, ScriptSpec.                                              *)
(***************************************************************************)
EXTENDS Integers, Sequences, FiniteSets, TLC

VARIABLES hkStatus, usStatus, hkSyncing, usSyncing, allSyncing,
          mounted, inflight, last, out,
          pc, ran, services, slept, exitcode

\* the component
cvars == <<hkStatus, usStatus, hkSyncing, usSyncing, allSyncing,
           mounted, inflight, last, out>>

\* the start-up script
svars == <<pc, ran, services, slept, exitcode>>

vars == <<hkStatus, usStatus, hkSyncing, usSyncing, allSyncing,
          mounted, inflight, last, out,
          pc, ran, services, slept, exitcode>>

(***************************************************************************)
(* JavaScript values.  null and undefined are tagged records so that they  *)
(* compare with objects; an object carries only the fields it has.         *)
(***************************************************************************)
Null == [jstype |-> "null"]

Undefined == [jstype |-> "undefined"]

Truthy(v) == v.jstype = "object"

Has(o, f) == f \in DOMAIN o

\* `${x}` of a string-valued field: an absent field prints as "undefined".
StrOf(o, f) == IF Has(o, f) THEN o[f] ELSE "undefined"

\* `${x}` of a number-valued field.
NumStrOf(o, f) == IF Has(o, f) THEN ToString(o[f]) ELSE "undefined"

\* x.f || 0 of the template
OrZero(o, f) == IF Has(o, f) /\ o[f] # 0 THEN o[f] ELSE 0

(***************************************************************************)
(* SyncStatus values the backend may carry in data.                        *)
(***************************************************************************)
Completed ==
  [jstype |-> "object", status |-> "completed", total |-> 1200,
   inserted |-> 5, updated |-> 3, finished_at |-> "2024-01-01T00:00:00Z"]

\* a never_run status that nevertheless carries a counter and a timestamp,
\* and omits the other optional fields (total among them)
NeverRun ==
  [jstype |-> "object", status |-> "never_run", inserted |-> 7,
   finished_at |-> "2023-12-31T00:00:00Z"]

SyncStatus == {Completed, NeverRun}

\* data of the foreign/sync endpoint: { hk, us }, us possibly missing
ForeignData ==
  {[jstype |-> "object", hk |-> a, us |-> b] : a \in SyncStatus, b \in SyncStatus}
    \cup {[jstype |-> "object", hk |-> Completed]}

Messages == {"rate limited"}

\* what an awaited request can settle to: an envelope, or a thrown error
Failures ==
  {[kind |-> "resolved", success |-> FALSE, message |-> m] : m \in Messages}
    \cup {[kind |-> "resolved", success |-> FALSE]}
    \cup {[kind |-> "rejected", message |-> "Network Error"]}
    \cup {[kind |-> "rejected"]}

StatusResponses ==
  {[kind |-> "resolved", success |-> TRUE, data |-> d] : d \in SyncStatus}
    \cup {[kind |-> "resolved", success |-> TRUE]}
    \cup Failures

ForeignResponses ==
  {[kind |-> "resolved", success |-> TRUE, data |-> d] : d \in ForeignData}
    \cup {[kind |-> "resolved", success |-> TRUE]}
    \cup Failures

NoRes == [kind |-> "none"]

\* res.data / res.data.hk: a missing property reads as undefined
Prop(o, f) == IF Has(o, f) THEN o[f] ELSE Undefined

(***************************************************************************)
(* Effects of one turn, in program order.                                  *)
(***************************************************************************)
Request(method, url, body) ==
  [ev |-> "request", type |-> method, text |-> <<url, body>>]

ElMessage(type, text) == [ev |-> "ElMessage", type |-> type, text |-> text]

ConsoleError(text) == [ev |-> "console.error", type |-> "error", text |-> text]

SetFlag(name, b) ==
  [ev |-> "set", type |-> name, text |-> <<IF b THEN "true" ELSE "false">>]

\* message of the TypeError raised by reading property f of undefined
TypeErrorMsg(f) == "Cannot read properties of undefined (reading '" \o f \o "')"

(***************************************************************************)
(* The fixed texts of the notifications and log lines, in ASCII glosses    *)
(* (string literals here are ASCII only); the original is in the comment.  *)
(***************************************************************************)
\* 獲取港股狀態失敗:
HKFetchFailed == "fetching HK status failed:"

\* 獲取美股狀態失敗:
USFetchFailed == "fetching US status failed:"

\* 港股同步失敗: 
HKSyncFailed == "HK sync failed: "

\* 美股同步失敗: 
USSyncFailed == "US sync failed: "

\* 同步失敗: 
AllSyncFailed == "sync failed: "

\* 港股同步完成: 
HKSyncDone == "HK sync completed: "

\* 美股同步完成: 
USSyncDone == "US sync completed: "

\* 港股和美股同步完成
AllSyncDone == "HK and US sync completed"

\*  支
Shares == " shares"

\* 開始同步港股數據...
HKSyncStarted == "starting HK data sync..."

\* 開始同步美股數據...
USSyncStarted == "starting US data sync..."

\* 開始同步港股和美股數據...
AllSyncStarted == "starting HK and US data sync..."

\* the script before its first command; exitcode -1: still running
ScriptStart ==
  /\ pc = "cd"
  /\ ran = <<>>
  /\ services = {}
  /\ slept = 0
  /\ exitcode = -1

Init ==
  /\ ScriptStart
  /\ hkStatus = Null
  /\ usStatus = Null
  /\ hkSyncing = FALSE
  /\ usSyncing = FALSE
  /\ allSyncing = FALSE
  /\ mounted = FALSE
  /\ inflight = <<>>
  /\ last = [handler |-> "setup", phase |-> "call", res |-> NoRes, overtaken |-> {}]
  /\ out = <<>>

(***************************************************************************)
(* In-flight requests, oldest first.  overtaken is a history field: the    *)
(* sources whose status was written by a request issued later than this    *)
(* one while this one was still in flight.                                 *)
(***************************************************************************)
Pending(op) == [op |-> op, overtaken |-> {}]

\* the async function that awaits the request to url
OpOf(url) ==
  CASE url = "/api/sync/multi-source/hk/status" -> "fetchHKStatus"
    [] url = "/api/sync/multi-source/us/status" -> "fetchUSStatus"
    [] url = "/api/sync/multi-source/hk/sync" -> "syncHK"
    [] url = "/api/sync/multi-source/us/sync" -> "syncUS"
    [] url = "/api/sync/multi-source/foreign/sync" -> "syncAll"

Writes(op) ==
  CASE op = "fetchHKStatus" -> {"hk"}
    [] op = "fetchUSStatus" -> {"us"}
    [] op = "syncHK" -> {"hk"}
    [] op = "syncUS" -> {"us"}
    [] op = "syncAll" -> {"hk", "us"}

Triggers == {"syncHK", "syncUS", "syncAll"}

Fetches == {"fetchHKStatus", "fetchUSStatus"}

InFlight(op) == {i \in 1..Len(inflight) : inflight[i].op = op}

Requests(o) == SelectSeq(o, LAMBDA e : e.ev = "request")

\* the requests of the effects o join the in-flight requests q
Issue(q, o) ==
  q \o [k \in 1..Len(Requests(o)) |-> Pending(OpOf(Requests(o)[k].text[1]))]

\* request i has settled and its continuation wrote the sources in written
Settled(i, written) ==
  [j \in 1..(Len(inflight) - 1) |->
     IF j < i
       THEN [inflight[j] EXCEPT
               !.overtaken = @ \cup (written \cap Writes(inflight[j].op))]
       ELSE inflight[j + 1]]

Step(handler, phase, res, overtaken) ==
  [handler |-> handler, phase |-> phase, res |-> res, overtaken |-> overtaken]

\* the five refs of the component
refs ==
  [hkStatus |-> hkStatus, usStatus |-> usStatus, hkSyncing |-> hkSyncing,
   usSyncing |-> usSyncing, allSyncing |-> allSyncing]

(***************************************************************************)
(* The status fetches.  _call is the function up to its await, _resume     *)
(* what runs once the awaited request has settled to res.  c is the refs   *)
(* at the start of the turn; the result holds the refs at its end, the     *)
(* sources assigned and the effects in program order.                      *)
(***************************************************************************)
fetchHKStatus_call(c) ==
  [c |-> c, out |-> <<Request("GET", "/api/sync/multi-source/hk/status", "")>>]

\* variant: a response overtaken by a later request is dropped
fetchHKStatus_resume_staleGuard(res, c) ==
  IF res.kind = "rejected"
    THEN [c |-> c, written |-> {},
          out |-> <<ConsoleError(<<HKFetchFailed, StrOf(res, "message")>>)>>]
    ELSE IF res.success
              /\ \A i \in 1..Len(inflight) :
                    inflight[i].op = "fetchHKStatus" => inflight[i].overtaken = {}
      THEN [c |-> [c EXCEPT !.hkStatus = Prop(res, "data")],
            written |-> {"hk"}, out |-> <<>>]
      ELSE [c |-> c, written |-> {}, out |-> <<>>]

fetchHKStatus_resume(res, c) ==
  IF res.kind = "rejected"
    THEN [c |-> c, written |-> {},
          out |-> <<ConsoleError(<<HKFetchFailed, StrOf(res, "message")>>)>>]
    ELSE IF res.success
      THEN [c |-> [c EXCEPT !.hkStatus = Prop(res, "data")],
            written |-> {"hk"}, out |-> <<>>]
      ELSE [c |-> c, written |-> {}, out |-> <<>>]

fetchUSStatus_call(c) ==
  [c |-> c, out |-> <<Request("GET", "/api/sync/multi-source/us/status", "")>>]

\* Object.assign of new over old
Merged(old, new) ==
  IF Truthy(old) /\ Truthy(new)
    THEN [f \in DOMAIN old \cup DOMAIN new |->
            IF f \in DOMAIN new THEN new[f] ELSE old[f]]
    ELSE new

\* variant: the response is merged into the status held
fetchUSStatus_resume_merge(res, c) ==
  IF res.kind = "rejected"
    THEN [c |-> c, written |-> {},
          out |-> <<ConsoleError(<<USFetchFailed, StrOf(res, "message")>>)>>]
    ELSE IF res.success
      THEN [c |-> [c EXCEPT !.usStatus = Merged(c.usStatus, Prop(res, "data"))],
            written |-> {"us"}, out |-> <<>>]
      ELSE [c |-> c, written |-> {}, out |-> <<>>]

fetchUSStatus_resume(res, c) ==
  IF res.kind = "rejected"
    THEN [c |-> c, written |-> {},
          out |-> <<ConsoleError(<<USFetchFailed, StrOf(res, "message")>>)>>]
    ELSE IF res.success
      THEN [c |-> [c EXCEPT !.usStatus = Prop(res, "data")],
            written |-> {"us"}, out |-> <<>>]
      ELSE [c |-> c, written |-> {}, out |-> <<>>]

(***************************************************************************)
(* The triggers.  _resume is the rest of the try body, the catch and the   *)
(* finally.  res.data.total of an undefined data raises a TypeError after  *)
(* the status ref was assigned; the catch reports it.                      *)
(***************************************************************************)
syncHK_call(c) ==
  [c |-> [c EXCEPT !.hkSyncing = TRUE],
   out |-> <<SetFlag("hkSyncing", TRUE),
             ElMessage("info", <<HKSyncStarted>>),
             Request("POST", "/api/sync/multi-source/hk/sync", "force: false")>>]

\* variant: the status ref is assigned before res.success is tested
syncHK_resume_assignFirst(res, c) ==
  LET data == Prop(res, "data")
      r == IF res.kind = "rejected"
             THEN [c |-> c, written |-> {},
                   note |-> ElMessage("error", <<HKSyncFailed, StrOf(res, "message")>>)]
             ELSE IF res.success
               THEN IF Truthy(data)
                 THEN [c |-> [c EXCEPT !.hkStatus = data], written |-> {"hk"},
                       note |-> ElMessage("success",
                                  <<HKSyncDone, NumStrOf(data, "total"), Shares>>)]
                 ELSE [c |-> [c EXCEPT !.hkStatus = data], written |-> {"hk"},
                       note |-> ElMessage("error",
                                  <<HKSyncFailed, TypeErrorMsg("total")>>)]
               ELSE [c |-> [c EXCEPT !.hkStatus = data], written |-> {"hk"},
                     note |-> ElMessage("error", <<HKSyncFailed, StrOf(res, "message")>>)]
  IN [c |-> [r.c EXCEPT !.hkSyncing = FALSE], written |-> r.written,
      out |-> <<r.note, SetFlag("hkSyncing", FALSE)>>]

\* variant: the flag is cleared at the end of the try body, not in a finally
syncHK_resume_flagInTry(res, c) ==
  LET data == Prop(res, "data")
      r == IF res.kind = "rejected"
             THEN [c |-> c, written |-> {},
                   note |-> ElMessage("error", <<HKSyncFailed, StrOf(res, "message")>>)]
             ELSE IF res.success
               THEN IF Truthy(data)
                 THEN [c |-> [c EXCEPT !.hkStatus = data], written |-> {"hk"},
                       note |-> ElMessage("success",
                                  <<HKSyncDone, NumStrOf(data, "total"), Shares>>)]
                 ELSE [c |-> [c EXCEPT !.hkStatus = data], written |-> {"hk"},
                       note |-> ElMessage("error",
                                  <<HKSyncFailed, TypeErrorMsg("total")>>)]
               ELSE [c |-> c, written |-> {},
                     note |-> ElMessage("error", <<HKSyncFailed, StrOf(res, "message")>>)]
  IN [c |-> [r.c EXCEPT !.hkSyncing = (res.kind = "rejected")], written |-> r.written,
      out |-> <<r.note, SetFlag("hkSyncing", FALSE)>>]

\* variant: a thrown request is sent again
syncHK_resume_retry(res, c) ==
  LET data == Prop(res, "data")
      r == IF res.kind = "rejected"
             THEN [c |-> c, written |-> {},
                   note |-> ElMessage("error", <<HKSyncFailed, StrOf(res, "message")>>)]
             ELSE IF res.success
               THEN IF Truthy(data)
                 THEN [c |-> [c EXCEPT !.hkStatus = data], written |-> {"hk"},
                       note |-> ElMessage("success",
                                  <<HKSyncDone, NumStrOf(data, "total"), Shares>>)]
                 ELSE [c |-> [c EXCEPT !.hkStatus = data], written |-> {"hk"},
                       note |-> ElMessage("error",
                                  <<HKSyncFailed, TypeErrorMsg("total")>>)]
               ELSE [c |-> c, written |-> {},
                     note |-> ElMessage("error", <<HKSyncFailed, StrOf(res, "message")>>)]
  IN [c |-> [r.c EXCEPT !.hkSyncing = FALSE], written |-> r.written,
      out |-> IF res.kind = "rejected"
                THEN <<r.note, SetFlag("hkSyncing", FALSE),
                       Request("POST", "/api/sync/multi-source/hk/sync", "force: false")>>
                ELSE <<r.note, SetFlag("hkSyncing", FALSE)>>]

syncHK_resume(res, c) ==
  LET data == Prop(res, "data")
      r == IF res.kind = "rejected"
             THEN [c |-> c, written |-> {},
                   note |-> ElMessage("error", <<HKSyncFailed, StrOf(res, "message")>>)]
             ELSE IF res.success
               THEN IF Truthy(data)
                 THEN [c |-> [c EXCEPT !.hkStatus = data], written |-> {"hk"},
                       note |-> ElMessage("success",
                                  <<HKSyncDone, NumStrOf(data, "total"), Shares>>)]
                 ELSE [c |-> [c EXCEPT !.hkStatus = data], written |-> {"hk"},
                       note |-> ElMessage("error",
                                  <<HKSyncFailed, TypeErrorMsg("total")>>)]
               ELSE [c |-> c, written |-> {},
                     note |-> ElMessage("error", <<HKSyncFailed, StrOf(res, "message")>>)]
  IN [c |-> [r.c EXCEPT !.hkSyncing = FALSE], written |-> r.written,
      out |-> <<r.note, SetFlag("hkSyncing", FALSE)>>]

\* variant: syncUS sets the flag of syncHK
syncUS_call_hkFlag(c) ==
  [c |-> [c EXCEPT !.hkSyncing = TRUE],
   out |-> <<SetFlag("usSyncing", TRUE),
             ElMessage("info", <<USSyncStarted>>),
             Request("POST", "/api/sync/multi-source/us/sync", "force: false")>>]

syncUS_call(c) ==
  [c |-> [c EXCEPT !.usSyncing = TRUE],
   out |-> <<SetFlag("usSyncing", TRUE),
             ElMessage("info", <<USSyncStarted>>),
             Request("POST", "/api/sync/multi-source/us/sync", "force: false")>>]

syncUS_resume(res, c) ==
  LET data == Prop(res, "data")
      r == IF res.kind = "rejected"
             THEN [c |-> c, written |-> {},
                   note |-> ElMessage("error", <<USSyncFailed, StrOf(res, "message")>>)]
             ELSE IF res.success
               THEN IF Truthy(data)
                 THEN [c |-> [c EXCEPT !.usStatus = data], written |-> {"us"},
                       note |-> ElMessage("success",
                                  <<USSyncDone, NumStrOf(data, "total"), Shares>>)]
                 ELSE [c |-> [c EXCEPT !.usStatus = data], written |-> {"us"},
                       note |-> ElMessage("error",
                                  <<USSyncFailed, TypeErrorMsg("total")>>)]
               ELSE [c |-> c, written |-> {},
                     note |-> ElMessage("error", <<USSyncFailed, StrOf(res, "message")>>)]
  IN [c |-> [r.c EXCEPT !.usSyncing = FALSE], written |-> r.written,
      out |-> <<r.note, SetFlag("usSyncing", FALSE)>>]

\* variant: the started notification is shown before the flag is set
syncAll_call_infoFirst(c) ==
  [c |-> [c EXCEPT !.allSyncing = TRUE],
   out |-> <<ElMessage("info", <<AllSyncStarted>>),
             SetFlag("allSyncing", TRUE),
             Request("POST", "/api/sync/multi-source/foreign/sync", "force: false")>>]

syncAll_call(c) ==
  [c |-> [c EXCEPT !.allSyncing = TRUE],
   out |-> <<SetFlag("allSyncing", TRUE),
             ElMessage("info", <<AllSyncStarted>>),
             Request("POST", "/api/sync/multi-source/foreign/sync", "force: false")>>]

\* variant: only hkStatus is assigned in the turn of the response
syncAll_resume_hkOnly(res, c) ==
  LET data == Prop(res, "data")
      r == IF res.kind = "rejected"
             THEN [c |-> c, written |-> {},
                   note |-> ElMessage("error", <<AllSyncFailed, StrOf(res, "message")>>)]
             ELSE IF res.success
               THEN IF Truthy(data)
                 THEN [c |-> [c EXCEPT !.hkStatus = Prop(data, "hk")],
                       written |-> {"hk", "us"},
                       note |-> ElMessage("success", <<AllSyncDone>>)]
                 ELSE [c |-> c, written |-> {},
                       note |-> ElMessage("error", <<AllSyncFailed, TypeErrorMsg("hk")>>)]
               ELSE [c |-> c, written |-> {},
                     note |-> ElMessage("error", <<AllSyncFailed, StrOf(res, "message")>>)]
  IN [c |-> [r.c EXCEPT !.allSyncing = FALSE], written |-> r.written,
      out |-> <<r.note, SetFlag("allSyncing", FALSE)>>]

syncAll_resume(res, c) ==
  LET data == Prop(res, "data")
      r == IF res.kind = "rejected"
             THEN [c |-> c, written |-> {},
                   note |-> ElMessage("error", <<AllSyncFailed, StrOf(res, "message")>>)]
             ELSE IF res.success
               THEN IF Truthy(data)
                 THEN [c |-> [c EXCEPT !.hkStatus = Prop(data, "hk"),
                                       !.usStatus = Prop(data, "us")],
                       written |-> {"hk", "us"},
                       note |-> ElMessage("success", <<AllSyncDone>>)]
                 ELSE [c |-> c, written |-> {},
                       note |-> ElMessage("error", <<AllSyncFailed, TypeErrorMsg("hk")>>)]
               ELSE [c |-> c, written |-> {},
                     note |-> ElMessage("error", <<AllSyncFailed, StrOf(res, "message")>>)]
  IN [c |-> [r.c EXCEPT !.allSyncing = FALSE], written |-> r.written,
      out |-> <<r.note, SetFlag("allSyncing", FALSE)>>]

\* onMounted: both fetches run to their await, in this order
onMounted(c) ==
  LET a == fetchHKStatus_call(c)
      b == fetchUSStatus_call(a.c)
  IN [c |-> b.c, out |-> a.out \o b.out]

ButtonEnabled_always(loading) == TRUE

\* el-button :loading: a loading button does not emit click
ButtonEnabled(loading) == ~loading

(***************************************************************************)
(* Actions: one per event-loop turn.                                       *)
(***************************************************************************)
Commit(c) ==
  /\ hkStatus' = c.hkStatus
  /\ usStatus' = c.usStatus
  /\ hkSyncing' = c.hkSyncing
  /\ usSyncing' = c.usSyncing
  /\ allSyncing' = c.allSyncing

\* a handler called by the framework or the user runs to its first await
Call(handler, r) ==
  /\ Commit(r.c)
  /\ out' = r.out
  /\ inflight' = Issue(inflight, r.out)
  /\ last' = Step(handler, "call", NoRes, {})
  /\ UNCHANGED svars

\* request i settles to res and its awaiting function runs to its end
Resume(handler, i, res, r) ==
  /\ Commit(r.c)
  /\ out' = r.out
  /\ inflight' = Issue(Settled(i, r.written), r.out)
  /\ last' = Step(handler, "resume", res, inflight[i].overtaken)
  /\ UNCHANGED svars

Mounted ==
  /\ ~mounted
  /\ mounted' = TRUE
  /\ Call("onMounted", onMounted(refs))

ClickSyncHK ==
  /\ mounted
  /\ ButtonEnabled(hkSyncing)
  /\ Call("syncHK", syncHK_call(refs))
  /\ UNCHANGED mounted

ClickSyncUS ==
  /\ mounted
  /\ ButtonEnabled(usSyncing)
  /\ Call("syncUS", syncUS_call(refs))
  /\ UNCHANGED mounted

ClickSyncAll ==
  /\ mounted
  /\ ButtonEnabled(allSyncing)
  /\ Call("syncAll", syncAll_call(refs))
  /\ UNCHANGED mounted

ResumeFetchHK ==
  /\ \E i \in InFlight("fetchHKStatus"), res \in StatusResponses :
       Resume("fetchHKStatus", i, res, fetchHKStatus_resume(res, refs))
  /\ UNCHANGED mounted

ResumeFetchUS ==
  /\ \E i \in InFlight("fetchUSStatus"), res \in StatusResponses :
       Resume("fetchUSStatus", i, res, fetchUSStatus_resume(res, refs))
  /\ UNCHANGED mounted

ResumeSyncHK ==
  /\ \E i \in InFlight("syncHK"), res \in StatusResponses :
       Resume("syncHK", i, res, syncHK_resume(res, refs))
  /\ UNCHANGED mounted

ResumeSyncUS ==
  /\ \E i \in InFlight("syncUS"), res \in StatusResponses :
       Resume("syncUS", i, res, syncUS_resume(res, refs))
  /\ UNCHANGED mounted

ResumeSyncAll ==
  /\ \E i \in InFlight("syncAll"), res \in ForeignResponses :
       Resume("syncAll", i, res, syncAll_resume(res, refs))
  /\ UNCHANGED mounted

Next ==
  \/ Mounted
  \/ ClickSyncHK
  \/ ClickSyncUS
  \/ ClickSyncAll
  \/ ResumeFetchHK
  \/ ResumeFetchUS
  \/ ResumeSyncHK
  \/ ResumeSyncUS
  \/ ResumeSyncAll

Spec == Init /\ [][Next]_vars

(***************************************************************************)
(* The template: what is rendered from the refs.                           *)
(***************************************************************************)
String(x) == [jstype |-> "string", val |-> x]

\* v?.f
OptChain(v, f) == IF Truthy(v) /\ Has(v, f) THEN String(v[f]) ELSE Undefined

getStatusType(status) ==
  IF status.jstype # "string" THEN "info"
  ELSE CASE status.val = "completed" -> "success"
         [] status.val = "running" -> "warning"
         [] status.val = "failed" -> "danger"
         [] status.val = "never_run" -> "info"
         [] OTHER -> "info"

\* '已完成'
TextCompleted == "completed (yi wancheng)"

\* '同步中'
TextRunning == "syncing (tongbu zhong)"

\* '失敗'
TextFailed == "failed (shibai)"

\* '未執行'
TextNeverRun == "not run (wei zhixing)"

\* '未知'
TextUnknown == "unknown (weizhi)"

\* variant: the never_run case is missing and falls to the default
getStatusText_noNeverRun(status) ==
  IF status.jstype # "string" THEN TextUnknown
  ELSE CASE status.val = "completed" -> TextCompleted
         [] status.val = "running" -> TextRunning
         [] status.val = "failed" -> TextFailed
         [] OTHER -> TextUnknown

getStatusText(status) ==
  IF status.jstype # "string" THEN TextUnknown
  ELSE CASE status.val = "completed" -> TextCompleted
         [] status.val = "running" -> TextRunning
         [] status.val = "failed" -> TextFailed
         [] status.val = "never_run" -> TextNeverRun
         [] OTHER -> TextUnknown

\* new Date(time).toLocaleString('zh-TW'); the empty text for a falsy time
formatTime(time) ==
  IF time.jstype # "string" \/ time.val = "" THEN <<>>
  ELSE <<"zh-TW", time.val>>

MarketStats_noNeverRunTest(st) ==
  IF Truthy(st)
    THEN [rows |-> <<[total |-> OrZero(st, "total"),
                      inserted |-> OrZero(st, "inserted"),
                      updated |-> OrZero(st, "updated")]>>,
          time |-> IF Has(st, "finished_at") /\ st.finished_at # ""
                     THEN <<formatTime(OptChain(st, "finished_at"))>>
                     ELSE <<>>]
    ELSE [rows |-> <<>>, time |-> <<>>]

\* the market-stats block of one source: the counter row and the time row
MarketStats(st) ==
  IF Truthy(st) /\ OptChain(st, "status") # String("never_run")
    THEN [rows |-> <<[total |-> OrZero(st, "total"),
                      inserted |-> OrZero(st, "inserted"),
                      updated |-> OrZero(st, "updated")]>>,
          time |-> IF Has(st, "finished_at") /\ st.finished_at # ""
                     THEN <<formatTime(OptChain(st, "finished_at"))>>
                     ELSE <<>>]
    ELSE [rows |-> <<>>, time |-> <<>>]

StatusTag(st) ==
  [type |-> getStatusType(OptChain(st, "status")),
   text |-> getStatusText(OptChain(st, "status"))]

(***************************************************************************)
(* Properties.                                                             *)
(***************************************************************************)
Notes(o, type) == {k \in 1..Len(o) : o[k].ev = "ElMessage" /\ o[k].type = type}

AllNotes(o) == {k \in 1..Len(o) : o[k].ev = "ElMessage"}

Logs(o) == {k \in 1..Len(o) : o[k].ev = "console.error"}

Contains(text, m) == \E k \in 1..Len(text) : text[k] = m

Resumed(ops) == last.phase = "resume" /\ last.handler \in ops

LogicalFailure(res) == res.kind = "resolved" /\ ~res.success

\* C1: while hkSyncing (usSyncing) is true the syncHK (syncUS) button emits
\* no click, so at most one syncHK request and at most one syncUS request is
\* in flight in every reachable state.
C1_OneInFlightPerSource ==
  /\ Cardinality(InFlight("syncHK")) <= 1
  /\ Cardinality(InFlight("syncUS")) <= 1
  /\ hkSyncing => ~ENABLED ClickSyncHK
  /\ usSyncing => ~ENABLED ClickSyncUS

C1_Witness ==
  /\ hkSyncing /\ InFlight("syncHK") # {}
  /\ usSyncing /\ InFlight("syncUS") # {}

\* C2: a trigger call whose request settles to success = false does not
\* change hkStatus or usStatus, neither in the turn that sends the request
\* nor in the turn that handles the response, and that turn shows exactly one
\* error notification (and no other); its text contains the message of the
\* response.
C2_LogicalFailureKeepsStatus ==
  [][/\ (last'.phase = "call" /\ last'.handler \in Triggers) =>
          hkStatus' = hkStatus /\ usStatus' = usStatus
     /\ (Resumed(Triggers)' /\ LogicalFailure(last'.res)) =>
          /\ hkStatus' = hkStatus
          /\ usStatus' = usStatus
          /\ Cardinality(Notes(out', "error")) = 1
          /\ AllNotes(out') = Notes(out', "error")
          /\ Has(last'.res, "message") =>
               \A k \in Notes(out', "error") :
                 Contains(out'[k].text, last'.res.message)]_vars

C2_Witness ==
  /\ Resumed({"syncHK"}) /\ LogicalFailure(last.res) /\ Has(last.res, "message")
  /\ hkStatus = Completed

\* C3: the continuation of syncAll that receives a success response replaces
\* hkStatus and usStatus in the same turn: in the state after it, the first
\* at which another handler can run or the view can render, both are the
\* values of the response, never one of them alone.
C3_SyncAllReplacesBoth ==
  [][(Resumed({"syncAll"})' /\ last'.res.kind = "resolved" /\ last'.res.success
        /\ Has(last'.res, "data")) =>
       /\ hkStatus' = Prop(last'.res.data, "hk")
       /\ usStatus' = Prop(last'.res.data, "us")]_vars

C3_Witness ==
  /\ Resumed({"syncAll"}) /\ last.res.kind = "resolved" /\ last.res.success
  /\ Has(last.res, "data")
  /\ hkStatus = Completed /\ usStatus = NeverRun

\* C4: the market-stats block of a source (counter row, completion time) is
\* rendered only if the status ref is not null and its status is not
\* 'never_run'; a 'never_run' status renders neither, whatever it carries.
C4_NeverRunShowsNoStats ==
  \A st \in {hkStatus, usStatus} :
    /\ (MarketStats(st).rows # <<>> \/ MarketStats(st).time # <<>>) =>
         st # Null /\ OptChain(st, "status") # String("never_run")
    /\ OptChain(st, "status") = String("never_run") =>
         MarketStats(st).rows = <<>> /\ MarketStats(st).time = <<>>

C4_Witness ==
  /\ hkStatus = NeverRun /\ MarketStats(hkStatus).rows = <<>>
  /\ usStatus = Completed /\ MarketStats(usStatus).time # <<>>

\* the status carried for source s by the response res of handler
Carried(handler, res, s) ==
  IF handler = "syncAll" THEN Prop(Prop(res, "data"), s) ELSE Prop(res, "data")

\* the response res makes the continuation of handler assign its status refs
Assigns(handler, res) ==
  /\ res.kind = "resolved"
  /\ res.success
  /\ handler = "syncAll" => Truthy(Prop(res, "data"))

Failed(res) == res.kind = "rejected" \/ ~res.success

Flag(t) ==
  CASE t = "syncHK" -> hkSyncing
    [] t = "syncUS" -> usSyncing
    [] t = "syncAll" -> allSyncing

\* C5: nothing guards against out-of-order responses: when a request that
\* was overtaken (a request issued later wrote the same source while this
\* one was in flight) settles to a success response, its continuation still
\* assigns the status, so the status displayed is that of the earlier request.
C5_StaleResponseOverwrites ==
  [][(last'.phase = "resume" /\ Assigns(last'.handler, last'.res)) =>
       /\ "hk" \in last'.overtaken => hkStatus' = Carried(last'.handler, last'.res, "hk")
       /\ "us" \in last'.overtaken => usStatus' = Carried(last'.handler, last'.res, "us")]_vars

C5_Witness ==
  /\ Resumed({"fetchHKStatus"}) /\ "hk" \in last.overtaken
  /\ Assigns(last.handler, last.res)
  /\ hkStatus = NeverRun
  /\ \A i \in 1..Len(inflight) : "hk" \notin Writes(inflight[i].op)

\* C6: the flag of a trigger is true in every state in which its request is
\* in flight, and the turn that ends the call sets it to false whatever the
\* request settled to; if every request eventually settles, every flag
\* eventually returns to false (no flag stays true from some point on).
C6_FlagCoversCall ==
  /\ [](\A t \in Triggers : InFlight(t) # {} => Flag(t))
  /\ [][\A t \in Triggers : Resumed({t})' => ~Flag(t)']_vars
  /\ \A t \in Triggers : []<>~Flag(t)

C6_Witness ==
  /\ Resumed({"syncHK"}) /\ last.res.kind = "rejected"
  /\ ~hkSyncing /\ allSyncing

\* C7: a status fetch that fails (thrown error or success = false) keeps
\* the status refs, shows no notification and logs the failure.
C7_FetchFailureLogged ==
  [][(Resumed(Fetches)' /\ Failed(last'.res)) =>
       /\ hkStatus' = hkStatus
       /\ usStatus' = usStatus
       /\ AllNotes(out') = {}
       /\ Logs(out') # {}]_vars

\* C8: a failed trigger shows one error notification; it contains the
\* message of the backend when there is one, and a generic transport error
\* message (not the text "undefined") when there is none.
C8_FailureMessageOrGeneric ==
  [][(Resumed(Triggers)' /\ Failed(last'.res)) =>
       /\ Cardinality(Notes(out', "error")) = 1
       /\ \A k \in Notes(out', "error") :
            IF Has(last'.res, "message")
              THEN Contains(out'[k].text, last'.res.message)
              ELSE ~Contains(out'[k].text, "undefined")]_vars

\* C9: nothing is retried or queued: the turn of a click sends exactly one
\* POST (that of its trigger), the mount sends exactly one GET per source,
\* and a turn that handles a response or an error sends no request at all.
C9_NoRetry ==
  [][/\ (last'.phase = "call" /\ last'.handler \in Triggers) =>
          /\ Len(Requests(out')) = 1
          /\ Requests(out')[1].type = "POST"
          /\ inflight' = Append(inflight, Pending(last'.handler))
     /\ last'.handler = "onMounted" =>
          /\ Len(Requests(out')) = 2
          /\ \A k \in 1..2 : Requests(out')[k].type = "GET"
          /\ inflight' = inflight \o <<Pending("fetchHKStatus"), Pending("fetchUSStatus")>>
     /\ last'.phase = "resume" =>
          /\ Requests(out') = <<>>
          /\ Len(inflight') = Len(inflight) - 1]_vars

C9_Witness ==
  /\ Resumed({"syncHK"}) /\ Failed(last.res)
  /\ inflight = <<>>

\* C10: a trigger writes no flag but its own, syncHK does not change
\* usStatus and syncUS does not change hkStatus; the three flags can be
\* true together.
C10_FlagsIndependent ==
  [][/\ last'.handler = "syncHK" =>
          usSyncing' = usSyncing /\ allSyncing' = allSyncing /\ usStatus' = usStatus
     /\ last'.handler = "syncUS" =>
          hkSyncing' = hkSyncing /\ allSyncing' = allSyncing /\ hkStatus' = hkStatus
     /\ last'.handler = "syncAll" =>
          hkSyncing' = hkSyncing /\ usSyncing' = usSyncing]_vars

C10_Witness == hkSyncing /\ usSyncing /\ allSyncing

\* every request eventually settles
FairSpec ==
  /\ Spec
  /\ WF_vars(ResumeFetchHK)
  /\ WF_vars(ResumeFetchUS)
  /\ WF_vars(ResumeSyncHK)
  /\ WF_vars(ResumeSyncUS)
  /\ WF_vars(ResumeSyncAll)

(***************************************************************************)
(* The start-up script.  There is no set -e: a command that fails does not *)
(* stop the script, only the docker check is tested.  ran is the history   *)
(* of the commands that have finished or, for the watchdog, started, each  *)
(* with its exit status (-1 while running).                                *)
(***************************************************************************)
\* exit 1
ExitDockerDown == 1

\* sleep 3
GraceSeconds == 3

\* largest exit status of the watchdog that is told apart
MaxExit == 2

ComposeServices == {"mongodb", "redis"}

Ran(cmd, rc) == [cmd |-> cmd, rc |-> rc]

AfterDockerInfo_noNegation(rc) == IF rc = 0 THEN "exit1" ELSE "compose"

\* if ! docker info > /dev/null 2>&1; then ... exit 1; fi
AfterDockerInfo(rc) == IF rc # 0 THEN "exit1" ELSE "compose"

\* cd "$(dirname "$0")/.."; PROJECT_DIR=$(pwd); the banner
ChangeDir ==
  /\ pc = "cd"
  /\ \E rc \in {0, 1} : ran' = Append(ran, Ran("cd", rc))
  /\ pc' = "docker info"
  /\ UNCHANGED <<services, slept, exitcode>>

DockerInfo ==
  /\ pc = "docker info"
  /\ \E rc \in {0, 1} :
       /\ ran' = Append(ran, Ran("docker info", rc))
       /\ pc' = AfterDockerInfo(rc)
  /\ UNCHANGED <<services, slept, exitcode>>

ExitDocker ==
  /\ pc = "exit1"
  /\ exitcode' = ExitDockerDown
  /\ pc' = "done"
  /\ UNCHANGED <<ran, services, slept>>

\* docker-compose up -d mongodb redis: status 0 iff both services came up
ComposeUp ==
  /\ pc = "compose"
  /\ \E up \in SUBSET ComposeServices :
       /\ services' = up
       /\ ran' = Append(ran, Ran("docker-compose up",
                                 IF up = ComposeServices THEN 0 ELSE 1))
  /\ pc' = "sleep"
  /\ UNCHANGED <<slept, exitcode>>

\* sleep 3, one second at a time
Sleep ==
  /\ pc = "sleep"
  /\ slept < GraceSeconds
  /\ slept' = slept + 1
  /\ IF slept' = GraceSeconds
       THEN pc' = "activate" /\ ran' = Append(ran, Ran("sleep", 0))
       ELSE UNCHANGED <<pc, ran>>
  /\ UNCHANGED <<services, exitcode>>

\* source .venv/bin/activate
Activate ==
  /\ pc = "activate"
  /\ \E rc \in {0, 1} : ran' = Append(ran, Ran("source", rc))
  /\ pc' = "watchdog"
  /\ UNCHANGED <<services, slept, exitcode>>

\* python scripts/watchdog.py starts
StartWatchdog ==
  /\ pc = "watchdog"
  /\ ran' = Append(ran, Ran("python", -1))
  /\ pc' = "running"
  /\ UNCHANGED <<services, slept, exitcode>>

\* the watchdog ends; its status is the status of the script
WatchdogExits ==
  /\ pc = "running"
  /\ \E rc \in 0..MaxExit :
       /\ ran' = [ran EXCEPT ![Len(ran)] = Ran("python", rc)]
       /\ exitcode' = rc
  /\ pc' = "done"
  /\ UNCHANGED <<services, slept>>

ScriptNext ==
  /\ \/ ChangeDir
     \/ DockerInfo
     \/ ExitDocker
     \/ ComposeUp
     \/ Sleep
     \/ Activate
     \/ StartWatchdog
     \/ WatchdogExits
  /\ UNCHANGED cvars

ScriptSpec == Init /\ [][ScriptNext]_vars

\* position in ran of the command cmd, 0 if it has not run
Position(cmd) ==
  IF \E k \in 1..Len(ran) : ran[k].cmd = cmd
    THEN CHOOSE k \in 1..Len(ran) : ran[k].cmd = cmd
    ELSE 0

DockerDown == Position("docker info") > 0 /\ ran[Position("docker info")].rc # 0

DockerUp == Position("docker info") > 0 /\ ran[Position("docker info")].rc = 0

StatusOf(s) == IF s = "hk" THEN hkStatus ELSE usStatus

\* C12: every success response (status fetch or trigger) replaces the status
\* of each source it is for by exactly the value carried in the response: the
\* status has the fields of that value and no others, so no field of the
\* status held before survives, not even one the response omits.
C12_ReplacedWholesale ==
  [][(last'.phase = "resume" /\ Assigns(last'.handler, last'.res)) =>
       \A s \in Writes(last'.handler) :
         /\ StatusOf(s)' = Carried(last'.handler, last'.res, s)
         /\ DOMAIN StatusOf(s)' = DOMAIN Carried(last'.handler, last'.res, s)]_vars

C12_Witness ==
  /\ Resumed({"fetchUSStatus"}) /\ Assigns(last.handler, last.res)
  /\ "us" \in last.overtaken
  /\ Prop(last.res, "data") = NeverRun
  /\ usStatus = NeverRun /\ ~Has(usStatus, "total")

\* C13: a trigger call that ends by showing an error notification leaves
\* hkStatus and usStatus as they were, whatever the response (success = true
\* without data included), and a trigger changes a status only in a turn
\* that shows a success notification.
C13_ErrorKeepsStatus ==
  [][Resumed(Triggers)' =>
       /\ Notes(out', "error") # {} =>
            hkStatus' = hkStatus /\ usStatus' = usStatus
       /\ (hkStatus' # hkStatus \/ usStatus' # usStatus) =>
            Notes(out', "success") # {}]_vars

FlagName(t) ==
  CASE t = "syncHK" -> "hkSyncing"
    [] t = "syncUS" -> "usSyncing"
    [] t = "syncAll" -> "allSyncing"

\* positions in the effects o of the writes of b to the flag of trigger t
FlagSet(o, t, b) ==
  {k \in 1..Len(o) : o[k] = SetFlag(FlagName(t), b)}

\* the flag of trigger t at the end of the turn
FlagNext(t) ==
  CASE t = "syncHK" -> hkSyncing'
    [] t = "syncUS" -> usSyncing'
    [] t = "syncAll" -> allSyncing'

RequestAt(o) == {k \in 1..Len(o) : o[k].ev = "request"}

\* C14: the turn of a trigger call sets its flag, then shows exactly one
\* notification, the 'started' info, then sends the request; the turn that
\* handles the response or the error shows exactly one notification, a
\* success or an error, and clears the flag after it.
C14_NotificationOrder ==
  [][/\ (last'.phase = "call" /\ last'.handler \in Triggers) =>
          /\ Cardinality(AllNotes(out')) = 1
          /\ AllNotes(out') = Notes(out', "info")
          /\ \A n \in AllNotes(out') :
               /\ \E k \in FlagSet(out', last'.handler, TRUE) : k < n
               /\ \A k \in RequestAt(out') : n < k
          /\ RequestAt(out') # {}
          /\ FlagNext(last'.handler)
     /\ Resumed(Triggers)' =>
          /\ Cardinality(AllNotes(out')) = 1
          /\ AllNotes(out') = Notes(out', "success") \cup Notes(out', "error")
          /\ \A n \in AllNotes(out') :
               \E k \in FlagSet(out', last'.handler, FALSE) : n < k
          /\ ~FlagNext(last'.handler)]_vars

C14_Witness ==
  /\ Resumed({"syncAll"}) /\ last.res.kind = "rejected"
  /\ Notes(out, "error") = {1}
  /\ FlagSet(out, "syncAll", FALSE) = {2}
  /\ ~allSyncing

(***************************************************************************)
(* The status tag as a function of the status ref.  The refs start at any  *)
(* value a success response can have left in them (data is untyped: any    *)
(* status string, no status field, no data); one turn renders the tags.    *)
(***************************************************************************)
StatusStrings ==
  {"completed", "running", "failed", "never_run", "unknown", "", "Completed"}

StatusInputs ==
  {[jstype |-> "object", status |-> x] : x \in StatusStrings}
    \cup {[jstype |-> "object", total |-> 1200], Null, Undefined}

\* <el-tag :type="getStatusType(st?.status)">{{ getStatusText(st?.status) }}
RenderTag(source, st) ==
  [ev |-> "el-tag", type |-> StatusTag(st).type,
   text |-> <<source, StatusTag(st).text>>]

TagInit ==
  /\ ScriptStart
  /\ hkStatus \in StatusInputs
  /\ usStatus \in StatusInputs
  /\ hkSyncing = FALSE
  /\ usSyncing = FALSE
  /\ allSyncing = FALSE
  /\ mounted = TRUE
  /\ inflight = <<>>
  /\ last = Step("setup", "call", NoRes, {})
  /\ out = <<>>

\* the template renders the two status tags from the refs
RenderTags ==
  /\ last.handler # "render"
  /\ out' = <<RenderTag("hk", hkStatus), RenderTag("us", usStatus)>>
  /\ last' = Step("render", "call", NoRes, {})
  /\ UNCHANGED <<hkStatus, usStatus, hkSyncing, usSyncing, allSyncing,
                 mounted, inflight>>
  /\ UNCHANGED svars

TagNext == RenderTags

TagSpec == TagInit /\ [][TagNext]_vars

\* the tag rendered for a status ref is of the given type and text
Rendered(k, type, text) == out[k].type = type /\ out[k].text[2] = text

\* the status ref has a status field equal to x
StatusIs(st, x) == Truthy(st) /\ Has(st, "status") /\ st.status = x

\* C15: the rendered tag depends on the status field only: 'completed' gives
\* the completed text and type success, 'running' the syncing text and
\* warning, 'failed' the failed text and danger, 'never_run' the not-run text
\* and info; every other value, 'unknown', a status without status field and
\* a null status included, gives the unknown text and info.
C15_StatusTagTable ==
  last.handler = "render" =>
    \A k \in {1, 2} :
      LET st == IF k = 1 THEN hkStatus ELSE usStatus IN
        /\ StatusIs(st, "completed") => Rendered(k, "success", TextCompleted)
        /\ StatusIs(st, "running") => Rendered(k, "warning", TextRunning)
        /\ StatusIs(st, "failed") => Rendered(k, "danger", TextFailed)
        /\ StatusIs(st, "never_run") => Rendered(k, "info", TextNeverRun)
        /\ (\A x \in {"completed", "running", "failed", "never_run"} :
              ~StatusIs(st, x)) => Rendered(k, "info", TextUnknown)

C15_Witness ==
  /\ last.handler = "render"
  /\ hkStatus = Null /\ Rendered(1, "info", TextUnknown)
  /\ StatusIs(usStatus, "never_run") /\ Rendered(2, "info", TextNeverRun)

====
